---------------------------- MODULE Spec2Model ----------------------------
(***************************************************************************)
(* Model of the news client of snap-news-summary: the fetch orchestrator   *)
(* fetchNews of src/pages/Index.tsx with its primary source (the Supabase  *)
(* edge function) and its static fallback /news.json, the article          *)
(* normalizer processArticle, the seen-set deduplicator, the text          *)
(* summarizer summarizeText, the rendering path (groupArticlesByTopic,     *)
(* sortArticles, filteredArticles), the chat assistant of Chatbot.tsx and  *)
(* the AI enrichment of the edge function fetch-news.                      *)
(*                                                                         *)
(* JavaScript strings are modelled as sequences of one-character strings,  *)
(* so that toLowerCase, includes, template concatenation, the whitespace   *)
(* and sentence regular expressions are computed and not assumed.          *)
(* An optional value (undefined / null / missing field) is the empty tuple *)
(* None, a present value v is the one-element tuple Some(v).               *)
(***************************************************************************)
EXTENDS Integers, Sequences, FiniteSets, TLC

VARIABLES
    articles,    \* useState<NewsArticle[]>([])            Index.tsx:40
    isLoading,   \* useState(true)                         Index.tsx:44
    error,       \* useState<string | null>(null)          Index.tsx:45
    toast,       \* the notification last surfaced by toast(...)
    pc,          \* position of every fetchNews invocation (its pending await)
    res,         \* what each pending invocation received from the primary source
    had,         \* whether articles existed when each pending invocation was called
    mounted,     \* whether the mount effect of Index has run
    log,         \* what the last step of an invocation met (call, response, throw)
    rawIn,       \* input of the normalizer run (processArticle)
    normOut,     \* its result
    xsIn,        \* input of the deduplicator run
    dedupOut,    \* its result
    grpIn,       \* input of the topic grouper run (groupArticlesByTopic)
    grpOut,      \* its result
    sortIn,      \* input of the sorter run: the articles and sortOrder
    sortOut,     \* its result
    filtIn,      \* input of the filter run: the articles and selectedCategory
    filtOut,     \* its result
    sumIn,       \* input of the summarizer run: text, maxSentences, maxChars
    sumOut,      \* its result
    chatIn,      \* the chat assistant: its articles prop and the text sent
    messages,    \* useState<Array<{ role, text }>>([])    Chatbot.tsx:23
    chatOut,     \* what the last handleSend did and found
    srvIn,       \* the edge function: its variant, the fetched articles, the AI replies
    calls,       \* the promise of every article of the slice       part_001:119
    response     \* the Response the handler returned                part_001:203

vars == <<articles, isLoading, error, toast, pc, res, had, mounted, log,
          rawIn, normOut, xsIn, dedupOut, grpIn, grpOut,
          sortIn, sortOut,
          filtIn, filtOut,
          sumIn, sumOut,
          chatIn, messages, chatOut,
          srvIn, calls, response>>

fetchVars == <<articles, isLoading, error, toast, pc, res, had, mounted, log>>
normVars == <<rawIn, normOut>>
dedupVars == <<xsIn, dedupOut>>
groupVars == <<grpIn, grpOut>>
sortVars == <<sortIn, sortOut>>
filterVars == <<filtIn, filtOut>>
sumVars == <<sumIn, sumOut>>
chatVars == <<chatIn, messages, chatOut>>
serverVars == <<srvIn, calls, response>>
\* the runs of the functions of the rendering path and of the edge function
viewVars == <<groupVars, sortVars, filterVars, sumVars, chatVars, serverVars>>

---------------------------------------------------------------------------
(* Bounds of the model *)

\* longest article list a source delivers in one response
MaxLen == 2
\* number of fetchNews invocations that can be in flight at once
MaxFetch == 2
\* longest input sequence of the deduplicator run
MaxDedupLen == 3
\* longest input sequence of the topic grouper run
MaxGroupLen == 3
\* longest input sequence of the sorter run
MaxSortLen == 3
\* longest input sequence of the filter run
MaxFilterLen == 3
\* longest text of the summarizer run
MaxTextLen == 4
\* largest article set of the chat assistant
MaxChatLen == 7
\* most fetched articles of an exhaustively enumerated server request
MaxBatch == 2

---------------------------------------------------------------------------
(* Optional values and strings *)

None == <<>>
Some(v) == <<v>>
IsSome(o) == o # None
Val(o) == o[1]

\* JavaScript truthiness of an optional string: undefined, null and "" are falsy
Truthy(o) == IsSome(o) /\ Val(o) # <<>>

UpperChars == <<"A", "B", "C", "D", "E", "F", "G", "H", "I", "J", "K", "L", "M",
                "N", "O", "P", "Q", "R", "S", "T", "U", "V", "W", "X", "Y", "Z">>
LowerChars == <<"a", "b", "c", "d", "e", "f", "g", "h", "i", "j", "k", "l", "m",
                "n", "o", "p", "q", "r", "s", "t", "u", "v", "w", "x", "y", "z">>

IsUpper(c) == \E i \in 1..Len(UpperChars) : UpperChars[i] = c

ToLowerChar(c) ==
    IF IsUpper(c)
    THEN LowerChars[CHOOSE i \in 1..Len(UpperChars) : UpperChars[i] = c]
    ELSE c

\* String.prototype.toLowerCase
ToLowerCase(s) == [i \in 1..Len(s) |-> ToLowerChar(s[i])]

\* String.prototype.includes
Includes(s, k) ==
    \E i \in 0..(Len(s) - Len(k)) : SubSeq(s, i + 1, i + Len(k)) = k

IsLowerCase(s) == \A i \in 1..Len(s) : ~IsUpper(s[i])

WhiteSpace == {" ", "\t", "\n"}
Terminators == {".", "!", "?"}

RECURSIVE CollapseWs(_)
\* text.replace(/\s+/g, " ")
CollapseWs(s) ==
    IF s = <<>> THEN <<>>
    ELSE IF Head(s) \in WhiteSpace
         THEN LET rest == CollapseWs(Tail(s))
              IN  IF rest # <<>> /\ Head(rest) = " " THEN rest ELSE <<" ">> \o rest
         ELSE <<Head(s)>> \o CollapseWs(Tail(s))

RECURSIVE TrimLeft(_)
TrimLeft(s) ==
    IF s # <<>> /\ Head(s) \in WhiteSpace THEN TrimLeft(Tail(s)) ELSE s

RECURSIVE TrimRight(_)
TrimRight(s) ==
    IF s # <<>> /\ s[Len(s)] \in WhiteSpace
    THEN TrimRight(SubSeq(s, 1, Len(s) - 1))
    ELSE s

\* String.prototype.trim
Trim(s) == TrimRight(TrimLeft(s))

\* String.prototype.slice(0, n), n >= 0
Slice0(s, n) == SubSeq(s, 1, IF n < Len(s) THEN n ELSE Len(s))

RECURSIVE RunEnd(_, _, _)
\* last index of the maximal run of characters of class cls (or outside it,
\* when cls is given as its complement test) that starts at index i
RunEnd(s, i, inCls) ==
    IF i < Len(s) /\ ((s[i + 1] \in Terminators) = inCls)
    THEN RunEnd(s, i + 1, inCls)
    ELSE i

RECURSIVE MatchSentences(_, _)
\* cleaned.match(/[^.!?]+[.!?]+|[^.!?]+$/g) scanning from index i: the list
\* of matches (empty when the regular expression matches nowhere)
MatchSentences(s, i) ==
    IF i > Len(s) THEN <<>>
    ELSE IF s[i] \in Terminators
         THEN MatchSentences(s, i + 1)
         ELSE LET j == RunEnd(s, i, FALSE)
              IN  IF j = Len(s)
                  THEN <<SubSeq(s, i, j)>>
                  ELSE LET k == RunEnd(s, j + 1, TRUE)
                       IN  <<SubSeq(s, i, k)>> \o MatchSentences(s, k + 1)

RECURSIVE JoinSpace(_)
\* Array.prototype.join(" ")
JoinSpace(ss) ==
    IF ss = <<>> THEN <<>>
    ELSE IF Len(ss) = 1 THEN ss[1]
         ELSE ss[1] \o <<" ">> \o JoinSpace(Tail(ss))

NoSummary == <<"N", "o", " ", "s", "u", "m", "m", "a", "r", "y", " ", "a", "v",
               "a", "i", "l", "a", "b", "l", "e", ".">>
Ellipsis == <<".", ".", ".">>

\* summarizeText(text, maxSentences, maxChars); text is an optional string
summarizeText(text, maxSentences, maxChars) ==
    IF ~Truthy(text) THEN NoSummary
    ELSE LET cleaned == Trim(CollapseWs(Val(text)))
             sentences == MatchSentences(cleaned, 1)
         IN  IF cleaned = <<>> THEN NoSummary
             ELSE IF Len(sentences) > 0
                  THEN LET take == Trim(JoinSpace(Slice0(sentences, maxSentences)))
                       IN  IF Len(take) <= maxChars THEN take
                           ELSE Trim(Slice0(take, maxChars)) \o Ellipsis
                  ELSE IF Len(cleaned) <= maxChars THEN cleaned
                       ELSE Trim(Slice0(cleaned, maxChars)) \o Ellipsis

---------------------------------------------------------------------------
(* Articles *)

\* source: string | { name } | undefined.  kind is "none", "str" or "obj";
\* name is the string itself, or the object's name property
NoSource == [kind |-> "none", name |-> None]
StrSource(s) == [kind |-> "str", name |-> Some(s)]
ObjSource(s) == [kind |-> "obj", name |-> Some(s)]

\* article.source?.name: a string has no name property
SourceName(src) == IF src.kind = "obj" THEN src.name ELSE None

\* One record shape for raw records and for NewsArticle; a field the object
\* does not carry is None
Blank ==
    [title |-> <<>>, url |-> <<>>, publishedAt |-> "", source |-> NoSource,
     category |-> None, summary |-> None, fullText |-> None,
     description |-> None, content |-> None,
     image |-> None, urlToImage |-> None]

kw_tech == <<"t", "e", "c", "h">>
kw_gadget == <<"g", "a", "d", "g", "e", "t">>
kw_digital == <<"d", "i", "g", "i", "t", "a", "l">>
kw_sport == <<"s", "p", "o", "r", "t">>
kw_athletic == <<"a", "t", "h", "l", "e", "t", "i", "c">>
kw_game == <<"g", "a", "m", "e">>
kw_business == <<"b", "u", "s", "i", "n", "e", "s", "s">>
kw_finance == <<"f", "i", "n", "a", "n", "c", "e">>
kw_market == <<"m", "a", "r", "k", "e", "t">>
kw_entertainment == <<"e", "n", "t", "e", "r", "t", "a", "i", "n", "m", "e", "n", "t">>
kw_movie == <<"m", "o", "v", "i", "e">>
kw_hollywood == <<"h", "o", "l", "l", "y", "w", "o", "o", "d">>

cat_technology == <<"t", "e", "c", "h", "n", "o", "l", "o", "g", "y">>
cat_sports == <<"s", "p", "o", "r", "t", "s">>
cat_business == <<"b", "u", "s", "i", "n", "e", "s", "s">>
cat_entertainment == <<"e", "n", "t", "e", "r", "t", "a", "i", "n", "m", "e", "n", "t">>
cat_general == <<"g", "e", "n", "e", "r", "a", "l">>

\* getSourceCategory(sourceName?: string): string | undefined
getSourceCategory(sourceName) ==
    IF ~Truthy(sourceName) THEN None
    ELSE LET name == ToLowerCase(Val(sourceName))
         IN  IF Includes(name, kw_tech) \/ Includes(name, kw_gadget)
                \/ Includes(name, kw_digital)
             THEN Some(cat_technology)
             ELSE IF Includes(name, kw_sport) \/ Includes(name, kw_athletic)
                     \/ Includes(name, kw_game)
             THEN Some(cat_sports)
             ELSE IF Includes(name, kw_business) \/ Includes(name, kw_finance)
                     \/ Includes(name, kw_market)
             THEN Some(cat_business)
             ELSE IF Includes(name, kw_entertainment) \/ Includes(name, kw_movie)
                     \/ Includes(name, kw_hollywood)
             THEN Some(cat_entertainment)
             ELSE None

\* a || b on optional strings
OrElse(a, b) == IF Truthy(a) THEN a ELSE b

\* article.category?.toLowerCase()
LowerCategory(article) ==
    IF IsSome(article.category) THEN Some(ToLowerCase(Val(article.category)))
    ELSE None

\* the category expression without its last alternative
ResolveCategoryNoDefault(article) ==
    OrElse(LowerCategory(article),
           getSourceCategory(SourceName(article.source)))

\* the category expression of processArticle
ResolveCategory(article) ==
    OrElse(LowerCategory(article),
           OrElse(getSourceCategory(SourceName(article.source)),
                  Some(cat_general)))

SummarySentences == 2
SummaryChars == 300

\* processArticle(article)
processArticle(article) ==
    LET raw == OrElse(article.description, OrElse(article.content, Some(<<>>)))
        img == OrElse(article.urlToImage, article.image)
    IN  [Blank EXCEPT
            !.title = article.title,
            !.summary = Some(summarizeText(raw, SummarySentences, SummaryChars)),
            !.fullText = raw,
            !.category = ResolveCategory(article),
            !.source = article.source,
            !.url = article.url,
            !.publishedAt = article.publishedAt,
            !.image = IF Truthy(img) THEN img ELSE None]

\* `${article.title}-${article.url}`
Key(article) == article.title \o <<"-">> \o article.url

\* the filter callback: an article passes iff its key is not in seen
Passes(article, seen) == Key(article) \notin seen

\* seen.add(key)
SeenAfterNoAdd(article, seen) == seen

SeenAfter(article, seen) == seen \cup {Key(article)}

RECURSIVE DedupFilter(_, _)
\* the .filter(...) over a seen set, from left to right
DedupFilter(xs, seen) ==
    IF xs = <<>> THEN <<>>
    ELSE IF Passes(Head(xs), seen)
         THEN <<Head(xs)>> \o DedupFilter(Tail(xs), SeenAfter(Head(xs), seen))
         ELSE DedupFilter(Tail(xs), seen)

\* const seen = new Set<string>(); xs.filter(...)
Dedupe(xs) == DedupFilter(xs, {})

\* fallbackJson.articles.map(processArticle).filter(...)
ProcessAndDedupe(raws) == Dedupe([i \in 1..Len(raws) |-> processArticle(raws[i])])

---------------------------------------------------------------------------
(* groupArticlesByTopic *)

\* ${x} in a template literal: a missing value prints as "undefined"
s_undefined == <<"u", "n", "d", "e", "f", "i", "n", "e", "d">>
TemplateText(o) == IF IsSome(o) THEN Val(o) ELSE s_undefined

\* the topics and their keywords, in declaration order
topicKeywords ==
    << [topic |-> "Politics", keywords |->
          { <<"p", "o", "l", "i", "t", "i", "c", "s">>,
            <<"g", "o", "v", "e", "r", "n", "m", "e", "n", "t">>,
            <<"e", "l", "e", "c", "t", "i", "o", "n">>,
            <<"t", "r", "u", "m", "p">>,
            <<"b", "i", "d", "e", "n">>,
            <<"c", "o", "n", "g", "r", "e", "s", "s">>,
            <<"s", "e", "n", "a", "t", "e">> }],
       [topic |-> "Technology", keywords |->
          { <<"t", "e", "c", "h">>,
            <<"a", "i">>,
            <<"s", "o", "f", "t", "w", "a", "r", "e">>,
            <<"a", "p", "p", "l", "e">>,
            <<"g", "o", "o", "g", "l", "e">>,
            <<"m", "i", "c", "r", "o", "s", "o", "f", "t">>,
            <<"a", "n", "d", "r", "o", "i", "d">>,
            <<"i", "p", "h", "o", "n", "e">> }],
       [topic |-> "Business", keywords |->
          { <<"b", "u", "s", "i", "n", "e", "s", "s">>,
            <<"e", "c", "o", "n", "o", "m", "y">>,
            <<"m", "a", "r", "k", "e", "t">>,
            <<"s", "t", "o", "c", "k">>,
            <<"c", "o", "m", "p", "a", "n", "y">>,
            <<"s", "t", "a", "r", "t", "u", "p">>,
            <<"i", "n", "v", "e", "s", "t", "m", "e", "n", "t">> }],
       [topic |-> "Sports", keywords |->
          { <<"s", "p", "o", "r", "t", "s">>,
            <<"g", "a", "m", "e">>,
            <<"p", "l", "a", "y", "e", "r">>,
            <<"t", "e", "a", "m">>,
            <<"f", "o", "o", "t", "b", "a", "l", "l">>,
            <<"b", "a", "s", "k", "e", "t", "b", "a", "l", "l">>,
            <<"b", "a", "s", "e", "b", "a", "l", "l">> }],
       [topic |-> "Entertainment", keywords |->
          { <<"m", "o", "v", "i", "e">>,
            <<"f", "i", "l", "m">>,
            <<"c", "e", "l", "e", "b", "r", "i", "t", "y">>,
            <<"a", "c", "t", "o", "r">>,
            <<"m", "u", "s", "i", "c">>,
            <<"h", "o", "l", "l", "y", "w", "o", "o", "d">>,
            <<"s", "t", "a", "r">> }],
       [topic |-> "Science", keywords |->
          { <<"s", "c", "i", "e", "n", "c", "e">>,
            <<"r", "e", "s", "e", "a", "r", "c", "h">>,
            <<"s", "t", "u", "d", "y">>,
            <<"d", "i", "s", "c", "o", "v", "e", "r", "y">>,
            <<"s", "p", "a", "c", "e">>,
            <<"c", "l", "i", "m", "a", "t", "e">> }],
       [topic |-> "Health", keywords |->
          { <<"h", "e", "a", "l", "t", "h">>,
            <<"m", "e", "d", "i", "c", "a", "l">>,
            <<"d", "i", "s", "e", "a", "s", "e">>,
            <<"t", "r", "e", "a", "t", "m", "e", "n", "t">>,
            <<"d", "o", "c", "t", "o", "r">>,
            <<"p", "a", "t", "i", "e", "n", "t">>,
            <<"m", "e", "d", "i", "c", "i", "n", "e">> }] >>

\* `${article.title} ${article.summary}`.toLowerCase()
TopicText(article) ==
    ToLowerCase(article.title \o <<" ">> \o TemplateText(article.summary))

\* keywords.some(keyword => text.includes(keyword))
HitsTopic(text, i) == \E k \in topicKeywords[i].keywords : Includes(text, k)

\* the topic of the last entry with a keyword in the text, else 'Other'
TopicOfLastHit(article) ==
    LET text == TopicText(article)
        hits == {i \in 1..Len(topicKeywords) : HitsTopic(text, i)}
    IN  IF hits = {} THEN "Other"
        ELSE topicKeywords[CHOOSE i \in hits : \A j \in hits : i >= j].topic

\* the topic of the first entry with a keyword in the text, else 'Other'
TopicOf(article) ==
    LET text == TopicText(article)
        hits == {i \in 1..Len(topicKeywords) : HitsTopic(text, i)}
    IN  IF hits = {} THEN "Other"
        ELSE topicKeywords[CHOOSE i \in hits : \A j \in hits : i <= j].topic

\* groups[topic] = [article]: the earlier members of the group are lost
PushReplacing(groups, topic, article) ==
    IF \E i \in 1..Len(groups) : groups[i].topic = topic
    THEN [i \in 1..Len(groups) |->
            IF groups[i].topic = topic
            THEN [groups[i] EXCEPT !.articles = <<article>>]
            ELSE groups[i]]
    ELSE Append(groups, [topic |-> topic, articles |-> <<article>>])

\* groups[topic] = groups[topic] || []; groups[topic].push(article).
\* The object keeps its keys in the order in which they were created
Push(groups, topic, article) ==
    IF \E i \in 1..Len(groups) : groups[i].topic = topic
    THEN [i \in 1..Len(groups) |->
            IF groups[i].topic = topic
            THEN [groups[i] EXCEPT !.articles = Append(@, article)]
            ELSE groups[i]]
    ELSE Append(groups, [topic |-> topic, articles |-> <<article>>])

RECURSIVE CollectGroups(_, _)
\* articles.forEach(...) over the groups object
CollectGroups(xs, groups) ==
    IF xs = <<>> THEN groups
    ELSE CollectGroups(Tail(xs), Push(groups, TopicOf(Head(xs)), Head(xs)))

\* b.articles.length - a.articles.length < 0: a goes before b
LargerGroup(a, b) == Len(a.articles) > Len(b.articles)

\* x placed in a sorted sequence before the first element it must precede
InsertByCount(sorted, x) ==
    LET before == {i \in 1..Len(sorted) : LargerGroup(x, sorted[i])}
        at == IF before = {} THEN Len(sorted) + 1
              ELSE CHOOSE i \in before : \A j \in before : i <= j
    IN  SubSeq(sorted, 1, at - 1) \o <<x>> \o SubSeq(sorted, at, Len(sorted))

RECURSIVE SortByCount(_, _)
\* .sort((a, b) => b.articles.length - a.articles.length); the sort of an
\* array is stable
SortByCount(gs, sorted) ==
    IF gs = <<>> THEN sorted
    ELSE SortByCount(Tail(gs), InsertByCount(sorted, Head(gs)))

\* groupArticlesByTopic(articles)
groupArticlesByTopic(xs) == SortByCount(CollectGroups(xs, <<>>), <<>>)

---------------------------------------------------------------------------
(* sortArticles *)

\* a number is NaN or Some(n)
NaN == None

\* new Date(s).getTime() on the timestamps of the model, in seconds (the
\* comparator uses only the sign of a difference): an ISO date is UTC
\* midnight, an RFC 822 date as an RSS feed writes it, "now" the time of a
\* run of new Date().toISOString(); no date for a missing or other text
GetTime(s) ==
    CASE s = "2024-01-01" -> Some(1704067200)
      [] s = "Mon, 01 Jan 2024 00:00:00 GMT" -> Some(1704067200)
      [] s = "2024-01-02" -> Some(1704153600)
      [] s = "2024-01-03" -> Some(1704240000)
      [] s = "2024-01-04" -> Some(1704326400)
      [] s = "2024-01-05" -> Some(1704412800)
      [] s = "2024-02-02" -> Some(1706832000)
      [] s = "2024-03-01" -> Some(1709251200)
      [] s = "now" -> Some(1793491200)
      [] OTHER -> NaN

\* x - y on numbers
Minus(x, y) == IF x = NaN \/ y = NaN THEN NaN ELSE Some(Val(x) - Val(y))

\* the comparator whatever sortOrder is: dateB - dateA
CompareNewestOnly(a, b, order) ==
    Minus(GetTime(b.publishedAt), GetTime(a.publishedAt))

\* the comparator: sortOrder === "newest" ? dateB - dateA : dateA - dateB
CompareDates(a, b, order) ==
    LET dateA == GetTime(a.publishedAt)
        dateB == GetTime(b.publishedAt)
    IN  IF order = "newest" THEN Minus(dateB, dateA) ELSE Minus(dateA, dateB)

\* Array.prototype.sort reads a comparator result that is NaN as +0
SortCompare(a, b, order) ==
    LET v == CompareDates(a, b, order) IN IF v = NaN THEN 0 ELSE Val(v)

\* whether the comparator is consistent on the elements of xs: a = b and
\* b = c give a = c, and likewise for < and >
ConsistentComparator(xs, order) ==
    \A i, j, k \in 1..Len(xs) :
        LET ab == SortCompare(xs[i], xs[j], order)
            bc == SortCompare(xs[j], xs[k], order)
            ac == SortCompare(xs[i], xs[k], order)
        IN  /\ (ab = 0 /\ bc = 0) => ac = 0
            /\ (ab < 0 /\ bc < 0) => ac < 0
            /\ (ab > 0 /\ bc > 0) => ac > 0

\* x placed in a sorted sequence before the first element it must precede
InsertByDate(sorted, x, order) ==
    LET before == {i \in 1..Len(sorted) : SortCompare(x, sorted[i], order) < 0}
        at == IF before = {} THEN Len(sorted) + 1
              ELSE CHOOSE i \in before : \A j \in before : i <= j
    IN  SubSeq(sorted, 1, at - 1) \o <<x>> \o SubSeq(sorted, at, Len(sorted))

RECURSIVE StableSortByDate(_, _, _)
\* the stable sort of xs under a consistent comparator
StableSortByDate(xs, sorted, order) ==
    IF xs = <<>> THEN sorted
    ELSE StableSortByDate(Tail(xs), InsertByDate(sorted, Head(xs), order), order)

\* the rearrangements of xs
Rearrangements(xs) ==
    { [i \in 1..Len(xs) |-> xs[f[i]]] :
        f \in {g \in [1..Len(xs) -> 1..Len(xs)] :
                  \A i, j \in 1..Len(xs) : i # j => g[i] # g[j]} }

\* [...articles].sort(comparator): the stable sort when the comparator is
\* consistent; otherwise the order is up to the implementation
sortArticles(xs, order) ==
    IF ConsistentComparator(xs, order)
    THEN {StableSortByDate(xs, <<>>, order)}
    ELSE Rearrangements(xs)

---------------------------------------------------------------------------
(* filteredArticles *)

c_all == <<"a", "l", "l">>

\* article.category || 'general'
getArticleCategoryAsStored(article) == OrElse(article.category, Some(cat_general))

\* getArticleCategory(article): article.category?.toLowerCase() || 'general'
getArticleCategory(article) == OrElse(LowerCategory(article), Some(cat_general))

RECURSIVE FilterByCategory(_, _)
\* articles.filter(article => getArticleCategory(article) === selectedCategory)
FilterByCategory(xs, selectedCategory) ==
    IF xs = <<>> THEN <<>>
    ELSE IF Val(getArticleCategory(Head(xs))) = selectedCategory
         THEN <<Head(xs)>> \o FilterByCategory(Tail(xs), selectedCategory)
         ELSE FilterByCategory(Tail(xs), selectedCategory)

\* selectedCategory === "all" ? articles : articles.filter(...)
filteredArticles(xs, selectedCategory) ==
    IF selectedCategory = c_all THEN xs
    ELSE FilterByCategory(xs, selectedCategory)

---------------------------------------------------------------------------
(* Chatbot: searchArticles and handleSend *)

RECURSIVE SplitWs(_, _)
\* q.split(/\s+/).filter(Boolean): the maximal runs of characters that are
\* no white space; cur is the run being read
SplitWs(s, cur) ==
    IF s = <<>> THEN (IF cur = <<>> THEN <<>> ELSE <<cur>>)
    ELSE IF Head(s) \in WhiteSpace
         THEN (IF cur = <<>> THEN <<>> ELSE <<cur>>) \o SplitWs(Tail(s), <<>>)
         ELSE SplitWs(Tail(s), Append(cur, Head(s)))

\* typeof a.source === "string" ? a.source : a.source.name, of an article
\* that has a source
SourceText(src) == Val(src.name)

\* `${a.title} ${a.summary} ${...}`.toLowerCase()
SearchText(a) ==
    ToLowerCase(a.title \o <<" ">> \o TemplateText(a.summary) \o <<" ">>
                \o SourceText(a.source))

RECURSIVE ScoreOf(_, _)
\* tokens.forEach((t) => { if (text.includes(t)) score += 1; })
ScoreOf(text, tokens) ==
    IF tokens = <<>> THEN 0
    ELSE (IF Includes(text, Head(tokens)) THEN 1 ELSE 0) + ScoreOf(text, Tail(tokens))

\* .map((a) => ({ article: a, score }))
Scored(xs, tokens) ==
    [i \in 1..Len(xs) |-> [article |-> xs[i], score |-> ScoreOf(SearchText(xs[i]), tokens)]]

RECURSIVE KeepMatches(_)
\* .filter((s) => s.score > 0)
KeepMatches(ss) ==
    IF ss = <<>> THEN <<>>
    ELSE IF Head(ss).score > 0 THEN <<Head(ss)>> \o KeepMatches(Tail(ss))
         ELSE KeepMatches(Tail(ss))

\* x placed in a sorted sequence before the first element it must precede
InsertByScore(sorted, x) ==
    LET before == {i \in 1..Len(sorted) : sorted[i].score - x.score < 0}
        at == IF before = {} THEN Len(sorted) + 1
              ELSE CHOOSE i \in before : \A j \in before : i <= j
    IN  SubSeq(sorted, 1, at - 1) \o <<x>> \o SubSeq(sorted, at, Len(sorted))

RECURSIVE SortByScore(_, _)
\* .sort((a, b) => b.score - a.score); the sort of an array is stable
SortByScore(ss, sorted) ==
    IF ss = <<>> THEN sorted
    ELSE SortByScore(Tail(ss), InsertByScore(sorted, Head(ss)))

MaxResults == 6

\* searchArticles(query)
searchArticles(xs, query) ==
    LET q == Trim(ToLowerCase(query))
    IN  IF q = <<>> THEN <<>>
        ELSE LET scored == Slice0(SortByScore(KeepMatches(Scored(xs, SplitWs(q, <<>>))), <<>>),
                                  MaxResults)
             IN  [i \in 1..Len(scored) |-> scored[i].article]

\* the messages handleSend appends for a text that is not blank: the
\* user's, then the bot's "I couldn't find articles matching ..." or
\* "I found n articles related to ..." with the lines of the results
Replies(text, results) ==
    << [role |-> "user", kind |-> "text", query |-> text, results |-> <<>>],
       [role |-> "bot", kind |-> (IF Len(results) = 0 THEN "notFound" ELSE "found"),
        query |-> text, results |-> results] >>

---------------------------------------------------------------------------
(* The edge function fetch-news: the AI enrichment of the fetched articles *)
(* Two versions of the handler exist: "rss" reads the RSS feeds            *)
(* (part_001), "newsapi" reads NewsAPI (part_002).  Both need              *)
(* LOVABLE_API_KEY to be configured before any AI call is made.            *)

\* allArticles.slice(0, 15)                     part_001:117, part_002:50
SliceLimit == 15

articlesToProcessAll(allArticles) == allArticles

articlesToProcess(allArticles) == Slice0(allArticles, SliceLimit)

\* the category the handler uses when the AI names none: the feed's
\* defaultCategory (part_001:96), the literal 'business' (part_002:104)
DefaultCategory(variant, article) ==
    IF variant = "rss" THEN Val(article.defaultCategory) ELSE cat_business

\* the summary the handler uses when the AI gives none: article.description
\* (part_001:173), article.description || article.title (part_002:103)
DefaultSummary(variant, article) ==
    IF variant = "rss"
    THEN article.description
    ELSE OrElse(article.description, Some(article.title))

\* aiResponse.ok: a status of the 2xx range
IsOk(status) == 200 <= status /\ status <= 299

\* the record returned by the catch block of one article
Unenriched(variant, article) ==
    [title |-> article.title,
     summary |-> DefaultSummary(variant, article),
     category |-> DefaultCategory(variant, article)]

\* the record returned after the AI reply was read
Enriched(variant, article, parsed) ==
    [title |-> article.title,
     summary |-> OrElse(parsed.summary, DefaultSummary(variant, article)),
     category |-> Val(OrElse(parsed.category,
                             Some(DefaultCategory(variant, article))))]

\* the async function mapped over the slice, for the reply the AI gateway
\* gives to its call:
\*   "reject"      fetch itself throws
\*   "status"      a response arrived, with reply.status
\*   "body"        the body is not the JSON of a completion
\*   "unparsable"  JSON.parse of the content throws
\*   "null"        the content parses to null, parsed.summary throws
\*   "object"      the content parses to the object reply.parsed
ProcessWithAI(variant, article, reply) ==
    IF reply.kind = "reject" THEN Unenriched(variant, article)
    ELSE IF ~IsOk(reply.status) THEN Unenriched(variant, article)
    ELSE IF reply.kind = "body" THEN Unenriched(variant, article)
    ELSE IF reply.kind = "unparsable"
    THEN Enriched(variant, article,
                   [summary |-> DefaultSummary(variant, article),
                    category |-> Some(DefaultCategory(variant, article))])
    ELSE IF reply.kind = "null" THEN Unenriched(variant, article)
    ELSE Enriched(variant, article, reply.parsed)

\* Promise.all: the results in the order of the promises
JoinAll(promises) == [i \in DOMAIN promises |-> Val(promises[i])]

---------------------------------------------------------------------------
(* The data the sources can deliver *)

\* sequences over S of length at most n
SeqsUpTo(S, n) == UNION {[1..k -> S] : k \in 0..n}

t_A == <<"A">>
t_B == <<"B">>
u_1 == <<"u", "1">>
u_2 == <<"u", "2">>
n_TechDigital == <<"T", "e", "c", "h", "D", "i", "g", "i", "t", "a", "l">>
n_RandomGazette == <<"R", "a", "n", "d", "o", "m", " ", "G", "a", "z", "e", "t", "t", "e">>
n_GameTech == <<"G", "a", "m", "e", " ", "T", "e", "c", "h">>
n_SportsMarket == <<"S", "p", "o", "r", "t", "s", " ", "M", "a", "r", "k", "e", "t">>
n_FinanceDaily == <<"F", "I", "N", "A", "N", "C", "E", " ", "D", "A", "I", "L", "Y">>
n_HollywoodBusiness == <<"H", "o", "l", "l", "y", "w", "o", "o", "d", " ", "B", "u", "s", "i", "n", "e", "s", "s">>
n_MovieNight == <<"M", "o", "v", "i", "e", " ", "N", "i", "g", "h", "t">>
d_Startup == <<"A", "I", " ", "s", "t", "a", "r", "t", "u", "p", " ", "r", "a", "i", "s", "e", "s", " ", "f", "u", "n", "d", "i", "n", "g", ".">>
c_Tech == <<"T", "e", "c", "h">>
c_SPORTS == <<"S", "P", "O", "R", "T", "S">>
c_Weather == <<"W", "e", "a", "t", "h", "e", "r">>
c_tech == <<"t", "e", "c", "h">>
c_politics == <<"p", "o", "l", "i", "t", "i", "c", "s">>

\* Articles as the edge function answers them (part_001:178-196): summary,
\* category as the AI call gave it or the feed's default, source a string.
\* The function neither lower-cases the category nor removes repeated items.
ServerPool ==
    { [Blank EXCEPT !.title = t_B, !.url = u_2, !.publishedAt = "2024-01-02",
                    !.summary = Some(d_Startup), !.category = Some(c_Tech),
                    !.source = StrSource(n_TechDigital)] }

\* Raw records of the static file /news.json
FallbackPool ==
    { [Blank EXCEPT !.title = t_A, !.url = u_1, !.publishedAt = "2024-01-01",
                    !.description = Some(d_Startup),
                    !.source = ObjSource(n_TechDigital)],
      [Blank EXCEPT !.title = t_A, !.url = u_1, !.publishedAt = "2024-02-02",
                    !.source = StrSource(n_RandomGazette)] }

ServerLists == SeqsUpTo(ServerPool, MaxLen)
FallbackLists == SeqsUpTo(FallbackPool, MaxLen)

\* the processed and deduplicated list of every list the file can hold
Processed == [raws \in FallbackLists |-> ProcessAndDedupe(raws)]

\* Outcomes of supabase.functions.invoke('fetch-news'): the call rejects;
\* res.error with a message holding 429, holding 402, or another one;
\* no error and no data.articles; or res.data = { articles: list }
PrimaryFailures == {"throw", "e429", "e402", "eOther", "noData"}
PrimaryOutcomes ==
    [kind : PrimaryFailures, list : {<<>>}] \cup [kind : {"ok"}, list : ServerLists]

\* Outcomes of fetch('/news.json'): the call rejects; a response that is
\* not OK; an OK response
FallbackOutcomes == {"fbThrow", "fbNotOk", "fbOk"}

\* Outcomes of fallbackResp.json(): it rejects (the body is no JSON); JSON
\* that is neither an array nor an object with a truthy articles field;
\* an articles field over which .map(processArticle) throws (not an array,
\* or a null entry); { articles: list }; a top-level array
BodyFailures == {"badJson", "noList", "malformed"}
BodyOutcomes ==
    [kind : BodyFailures, list : {<<>>}] \cup [kind : {"obj", "arr"}, list : FallbackLists]

ph_title == <<"T", "e", "s", "t", " ", "A", "r", "t", "i", "c", "l", "e">>
ph_summary == <<"T", "h", "i", "s", " ", "i", "s", " ", "a", " ", "t", "e", "s", "t", " ", "a", "r", "t", "i", "c", "l", "e", " ", "t", "o", " ", "v", "e", "r", "i", "f", "y", " ", "r", "e", "n", "d", "e", "r", "i", "n", "g", ".">>
ph_source == <<"T", "e", "s", "t", " ", "S", "o", "u", "r", "c", "e">>
ph_url == <<"h", "t", "t", "p", "s", ":", "/", "/", "e", "x", "a", "m", "p", "l", "e", ".", "c", "o", "m">>

\* the dummy article of the fallback's catch block; "now" stands for
\* new Date().toISOString()
Placeholder ==
    [Blank EXCEPT !.title = ph_title, !.summary = Some(ph_summary),
                  !.category = Some(c_tech), !.source = StrSource(ph_source),
                  !.url = ph_url, !.publishedAt = "now"]

---------------------------------------------------------------------------
(* fetchNews *)

Procs == 1..MaxFetch

Null == "null"
GenericError == "Failed to fetch news. Please try again."

\* <StrictMode> runs the mount effect twice in a development build
StrictEffectRuns == 2

Idle(p) == pc[p] = "idle"

\* the invocation that takes the next call of fetchNews
FreeProc == CHOOSE p \in Procs : Idle(p) /\ \A q \in Procs : Idle(q) => p <= q

\* fetchNews up to its first await: setIsLoading(true); setError(null);
\* supabase.functions.invoke('fetch-news') is issued
Begin(ps) ==
    /\ isLoading' = TRUE
    /\ error' = Null
    /\ pc' = [p \in Procs |-> IF p \in ps THEN "awaitPrimary" ELSE pc[p]]
    /\ res' = [p \in Procs |-> IF p \in ps THEN "none" ELSE res[p]]
    /\ had' = [p \in Procs |-> IF p \in ps THEN articles # <<>> ELSE had[p]]
    /\ UNCHANGED <<articles, toast>>

\* the invocation is over: its locals are gone
Return(p) ==
    /\ pc' = [pc EXCEPT ![p] = "idle"]
    /\ res' = [res EXCEPT ![p] = "none"]
    /\ had' = [had EXCEPT ![p] = FALSE]

\* finally { setIsLoading(false) }
FinallyKeepsLoading(p) ==
    /\ UNCHANGED isLoading
    /\ Return(p)

Finally(p) ==
    /\ isLoading' = FALSE
    /\ Return(p)

\* useEffect(() => { fetchNews(); }, []): once, or twice under StrictMode
Mount ==
    /\ ~mounted
    /\ mounted' = TRUE
    /\ \E n \in {1, StrictEffectRuns} :
          /\ Begin(1..n)
          /\ log' = "start"
    /\ UNCHANGED <<normVars, dedupVars, viewVars>>

\* onClick={fetchNews} of the Refresh button (NewsHeader, rendered when the
\* page is neither loading nor in error) or of the Retry button (error page)
Refresh ==
    /\ mounted
    /\ ~isLoading
    /\ \E p \in Procs : Idle(p)
    /\ Begin({FreeProc})
    /\ log' = "start"
    /\ UNCHANGED <<mounted, normVars, dedupVars, viewVars>>

RateLimitToast == "Rate Limit Reached"
PaymentToast == "Payment Required"

\* the toast a structured error of the primary source raises
ToastFor(kind) ==
    IF kind = "e429" THEN RateLimitToast
    ELSE IF kind = "e402" THEN PaymentToast
    ELSE toast

\* if (!data?.articles): whether the fallback is tried.  An empty array is
\* truthy in JavaScript
NeedsFallback(o) == o.kind # "ok"

\* what the invocation received from the primary source
Received(o) == IF o.kind = "ok" /\ o.list = <<>> THEN "okEmpty" ELSE o.kind

\* The primary call settles (lines 107-141 and 188-197)
PrimaryResolve(p, o) ==
    /\ pc[p] = "awaitPrimary"
    /\ log' = Received(o)
    /\ toast' = ToastFor(o.kind)
    /\ IF NeedsFallback(o)
       THEN /\ pc' = [pc EXCEPT ![p] = "awaitFallback"]
            /\ res' = [res EXCEPT ![p] = Received(o)]
            /\ UNCHANGED <<articles, isLoading, had>>
       ELSE /\ articles' = o.list
            /\ Finally(p)
    /\ UNCHANGED <<error, mounted, normVars, dedupVars, viewVars>>

\* fetch('/news.json') settles (lines 144-147, 174-187, 195-197)
FallbackResolve(p, f) ==
    /\ pc[p] = "awaitFallback"
    /\ log' = f
    /\ CASE f = "fbThrow" -> /\ articles' = <<Placeholder>>
                             /\ Finally(p)
         [] f = "fbNotOk" -> /\ UNCHANGED articles
                             /\ Finally(p)
         [] f = "fbOk"    -> /\ pc' = [pc EXCEPT ![p] = "awaitJson"]
                             /\ UNCHANGED <<articles, isLoading, res, had>>
    /\ UNCHANGED <<error, toast, mounted, normVars, dedupVars, viewVars>>

\* the article set after fallbackResp.json() settled with body b (148-187)
ArticlesAfterBody(b) ==
    CASE b.kind = "obj"                      -> Processed[b.list]
      [] b.kind = "arr"                      -> b.list
      [] b.kind \in {"badJson", "malformed"} -> <<Placeholder>>
      [] b.kind = "noList"                   -> articles

\* fallbackResp.json() settles (lines 148-187, 195-197)
JsonResolve(p, b) ==
    /\ pc[p] = "awaitJson"
    /\ log' = b.kind
    /\ articles' = ArticlesAfterBody(b)
    /\ Finally(p)
    /\ UNCHANGED <<error, toast, mounted, normVars, dedupVars, viewVars>>

Resolve(p) ==
    \/ \E o \in PrimaryOutcomes : PrimaryResolve(p, o)
    \/ \E f \in FallbackOutcomes : FallbackResolve(p, f)
    \/ \E b \in BodyOutcomes : JsonResolve(p, b)

\* the page before its mount effect ran
FetchInit ==
    /\ articles = <<>>
    /\ isLoading = TRUE
    /\ error = Null
    /\ toast = "none"
    /\ pc = [p \in Procs |-> "idle"]
    /\ res = [p \in Procs |-> "none"]
    /\ had = [p \in Procs |-> FALSE]
    /\ mounted = FALSE
    /\ log = "none"

\* no run of the normalizer, of the deduplicator
NormIdle == rawIn = Blank /\ normOut = None
DedupIdle == xsIn = <<>> /\ dedupOut = None

\* no function of the rendering path has been run, no request is served
GroupIdle == grpIn = <<>> /\ grpOut = None

SortIdle == sortIn = [articles |-> <<>>, order |-> "newest"] /\ sortOut = None

FilterIdle == filtIn = [articles |-> <<>>, category |-> <<"a", "l", "l">>] /\ filtOut = None

SumIdle == sumIn = [text |-> None, maxSentences |-> 0, maxChars |-> 0] /\ sumOut = None

ChatIdle == chatIn = [articles |-> <<>>, text |-> <<>>] /\ messages = <<>> /\ chatOut = None

ServerIdle == srvIn = [variant |-> "rss", articles |-> <<>>, replies |-> <<>>] /\ calls = <<>> /\ response = None

ViewIdle == GroupIdle /\ SortIdle /\ FilterIdle /\ SumIdle /\ ChatIdle /\ ServerIdle

Init ==
    /\ FetchInit
    /\ rawIn = Blank
    /\ normOut = None
    /\ xsIn = <<>>
    /\ dedupOut = None
    /\ ViewIdle

Next ==
    \/ Mount
    \/ Refresh
    \/ \E p \in Procs : Resolve(p)

Spec == Init /\ [][Next]_vars

\* every pending call of an invocation settles: the browser resolves or
\* rejects each request
FairSpec == Spec /\ \A p \in Procs : WF_vars(Resolve(p))

---------------------------------------------------------------------------
(* A run of the normalizer on one raw record *)

SourceNames ==
    {n_TechDigital, n_RandomGazette, n_GameTech, n_SportsMarket,
     n_FinanceDaily, n_HollywoodBusiness, n_MovieNight, <<>>}

SourceInputs ==
    {NoSource} \cup {StrSource(n) : n \in SourceNames}
               \cup {ObjSource(n) : n \in SourceNames}

CategoryInputs ==
    {None, Some(<<>>), Some(c_Tech), Some(c_SPORTS), Some(c_Weather),
     Some(c_politics)}

RawInputs ==
    { [Blank EXCEPT !.title = t_A, !.url = u_1, !.publishedAt = "2024-01-01",
                    !.category = c, !.source = src, !.description = d] :
        c \in CategoryInputs, src \in SourceInputs, d \in {None, Some(d_Startup)} }

InitNormalize ==
    /\ rawIn \in RawInputs
    /\ normOut = None
    /\ FetchInit
    /\ xsIn = <<>>
    /\ dedupOut = None
    /\ ViewIdle

Normalize ==
    /\ normOut = None
    /\ normOut' = Some(processArticle(rawIn))
    /\ UNCHANGED <<rawIn, fetchVars, dedupVars, viewVars>>

SpecNormalize == InitNormalize /\ [][Normalize]_vars

---------------------------------------------------------------------------
(* A run of the deduplicator on one sequence of articles *)

t_a == <<"a">>
t_ab == <<"a", "-", "b">>
u_c == <<"c">>
u_bc == <<"b", "-", "c">>

DedupPool ==
    { [Blank EXCEPT !.title = t_A, !.url = u_1, !.publishedAt = "2024-01-01"],
      [Blank EXCEPT !.title = t_A, !.url = u_1, !.publishedAt = "2024-02-02"],
      [Blank EXCEPT !.title = t_B, !.url = u_1, !.publishedAt = "2024-01-01"],
      [Blank EXCEPT !.title = t_ab, !.url = u_c, !.publishedAt = "2024-01-03"],
      [Blank EXCEPT !.title = t_a, !.url = u_bc, !.publishedAt = "2024-01-04"] }

InitDedupe ==
    /\ xsIn \in SeqsUpTo(DedupPool, MaxDedupLen)
    /\ dedupOut = None
    /\ FetchInit
    /\ rawIn = Blank
    /\ normOut = None
    /\ ViewIdle

DedupeRun ==
    /\ dedupOut = None
    /\ dedupOut' = Some(Dedupe(xsIn))
    /\ UNCHANGED <<xsIn, fetchVars, normVars, viewVars>>

SpecDedupe == InitDedupe /\ [][DedupeRun]_vars

---------------------------------------------------------------------------
(* A run of the topic grouper on one sequence of articles *)

t_Election == <<"E", "l", "e", "c", "t", "i", "o", "n", " ", "d", "a", "y">>
t_AIGame == <<"A", "I", " ", "g", "a", "m", "e">>
t_TeamWins == <<"T", "e", "a", "m", " ", "w", "i", "n", "s">>
t_TeamTalk == <<"T", "e", "a", "m", " ", "t", "a", "l", "k">>
t_Fog == <<"F", "o", "g">>
d_Votes == <<"V", "o", "t", "e", "s", ".">>
d_Play == <<"P", "l", "a", "y", ".">>
d_Chat == <<"C", "h", "a", "t", ".">>
d_Mist == <<"M", "i", "s", "t", ".">>
u_3 == <<"u", "3">>
u_4 == <<"u", "4">>
u_5 == <<"u", "5">>

\* Articles of the article set: one of category "general" about an
\* election, one with keywords of two topics, one without summary (a record
\* of a bare-array /news.json), a second one of the same topic, one that
\* has no keyword
GroupPool ==
    { [Blank EXCEPT !.title = t_Election, !.summary = Some(d_Votes), !.url = u_1,
                    !.category = Some(cat_general), !.publishedAt = "2024-01-01"],
      [Blank EXCEPT !.title = t_AIGame, !.summary = Some(d_Play), !.url = u_2,
                    !.category = Some(cat_sports), !.publishedAt = "2024-01-02"],
      [Blank EXCEPT !.title = t_TeamWins, !.url = u_3,
                    !.publishedAt = "2024-01-03"],
      [Blank EXCEPT !.title = t_TeamTalk, !.summary = Some(d_Chat), !.url = u_4,
                    !.category = Some(cat_sports), !.publishedAt = "2024-01-04"],
      [Blank EXCEPT !.title = t_Fog, !.summary = Some(d_Mist), !.url = u_5,
                    !.category = Some(cat_general), !.publishedAt = "2024-01-05"] }

InitGroup ==
    /\ grpIn \in SeqsUpTo(GroupPool, MaxGroupLen)
    /\ grpOut = None
    /\ FetchInit
    /\ NormIdle
    /\ DedupIdle
    /\ SortIdle
    /\ FilterIdle
    /\ SumIdle
    /\ ChatIdle
    /\ ServerIdle

GroupRun ==
    /\ grpOut = None
    /\ grpOut' = Some(groupArticlesByTopic(grpIn))
    /\ UNCHANGED <<grpIn, fetchVars, normVars, dedupVars, sortVars,
                 filterVars, sumVars, chatVars,
                 serverVars>>

SpecGroup == InitGroup /\ [][GroupRun]_vars

---------------------------------------------------------------------------
(* A run of the sorter on one sequence of articles *)

\* Articles with two dates, one of them written in two ways, and one
\* without a date that parses
SortPool ==
    { [Blank EXCEPT !.title = t_A, !.url = u_1, !.publishedAt = "2024-01-01"],
      [Blank EXCEPT !.title = t_B, !.url = u_2,
                    !.publishedAt = "Mon, 01 Jan 2024 00:00:00 GMT"],
      [Blank EXCEPT !.title = t_Fog, !.url = u_3, !.publishedAt = "2024-03-01"],
      [Blank EXCEPT !.title = t_Election, !.url = u_4, !.publishedAt = ""] }

SortOrders == {"newest", "oldest"}

InitSort ==
    /\ sortIn \in [articles : SeqsUpTo(SortPool, MaxSortLen), order : SortOrders]
    /\ sortOut = None
    /\ FetchInit
    /\ NormIdle
    /\ DedupIdle
    /\ GroupIdle
    /\ FilterIdle
    /\ SumIdle
    /\ ChatIdle
    /\ ServerIdle

SortRun ==
    /\ sortOut = None
    /\ \E ys \in sortArticles(sortIn.articles, sortIn.order) : sortOut' = Some(ys)
    /\ UNCHANGED <<sortIn, fetchVars, normVars, dedupVars, groupVars,
                 filterVars, sumVars, chatVars,
                 serverVars>>

SpecSort == InitSort /\ [][SortRun]_vars

---------------------------------------------------------------------------
(* A run of the filter on one sequence of articles *)

\* Articles of the article set: one without category (a record of a
\* bare-array /news.json), one as the edge function answers it, two
\* normalized ones
FilterPool ==
    { [Blank EXCEPT !.title = t_A, !.url = u_1, !.publishedAt = "2024-01-01"],
      [Blank EXCEPT !.title = t_B, !.url = u_2, !.publishedAt = "2024-01-02",
                    !.category = Some(c_Tech)],
      [Blank EXCEPT !.title = t_Fog, !.url = u_3, !.publishedAt = "2024-01-03",
                    !.category = Some(cat_general)],
      [Blank EXCEPT !.title = t_TeamWins, !.url = u_4, !.publishedAt = "2024-01-04",
                    !.category = Some(cat_sports)] }

\* the tabs that can be selected
SelectableCategories == {c_all, cat_general, c_tech, cat_sports}

InitFilter ==
    /\ filtIn \in [articles : SeqsUpTo(FilterPool, MaxFilterLen),
                   category : SelectableCategories]
    /\ filtOut = None
    /\ FetchInit
    /\ NormIdle
    /\ DedupIdle
    /\ GroupIdle
    /\ SortIdle
    /\ SumIdle
    /\ ChatIdle
    /\ ServerIdle

FilterRun ==
    /\ filtOut = None
    /\ filtOut' = Some(filteredArticles(filtIn.articles, filtIn.category))
    /\ UNCHANGED <<filtIn, fetchVars, normVars, dedupVars, groupVars,
                 sortVars, sumVars, chatVars,
                 serverVars>>

SpecFilter == InitFilter /\ [][FilterRun]_vars

---------------------------------------------------------------------------
(* A run of the summarizer on one text *)

\* a letter, two terminators, a white space
TextChars == {"a", ".", "!", " "}

\* no text (null, undefined), or a text
TextInputs == {None} \cup {Some(t) : t \in SeqsUpTo(TextChars, MaxTextLen)}

SentenceLimits == {0, 1, 2}
CharLimits == {0, 3, SummaryChars}

InitSummarize ==
    /\ sumIn \in [text : TextInputs, maxSentences : SentenceLimits,
                  maxChars : CharLimits]
    /\ sumOut = None
    /\ FetchInit
    /\ NormIdle
    /\ DedupIdle
    /\ GroupIdle
    /\ SortIdle
    /\ FilterIdle
    /\ ChatIdle
    /\ ServerIdle

SummarizeRun ==
    /\ sumOut = None
    /\ sumOut' = Some(summarizeText(sumIn.text, sumIn.maxSentences, sumIn.maxChars))
    /\ UNCHANGED <<sumIn, fetchVars, normVars, dedupVars, groupVars,
                 sortVars, filterVars, chatVars,
                 serverVars>>

SpecSummarize == InitSummarize /\ [][SummarizeRun]_vars

---------------------------------------------------------------------------
(* The chat assistant answers one text *)

\* The article set handed to the assistant: seven articles of sources with
\* "News" in their name, strings or objects, one of another source whose
\* summary mentions football, and one without summary (a record of a
\* bare-array /news.json)
ChatArticles ==
    << [Blank EXCEPT !.title = <<"F", "o", "g">>,
                    !.summary = Some(<<"M", "i", "s", "t", ".">>),
                    !.source = StrSource(<<"D", "a", "i", "l", "y", " ", "N", "e", "w", "s">>),
                    !.url = <<"u", "1">>, !.publishedAt = "2024-01-01"],
       [Blank EXCEPT !.title = <<"A", "I", " ", "t", "e", "c", "h">>,
                    !.summary = Some(<<"C", "h", "i", "p", "s", ".">>),
                    !.source = ObjSource(<<"T", "e", "c", "h", " ", "N", "e", "w", "s">>),
                    !.url = <<"u", "2">>, !.publishedAt = "2024-01-01"],
       [Blank EXCEPT !.title = <<"F", "o", "o", "t", "b", "a", "l", "l">>,
                    !.summary = Some(<<"G", "o", "a", "l", ".">>),
                    !.source = StrSource(<<"S", "p", "o", "r", "t", " ", "N", "e", "w", "s">>),
                    !.url = <<"u", "3">>, !.publishedAt = "2024-01-01"],
       [Blank EXCEPT !.title = <<"R", "a", "i", "n">>,
                    !.source = ObjSource(<<"N", "e", "w", "s", " ", "W", "i", "r", "e">>),
                    !.url = <<"u", "4">>, !.publishedAt = "2024-01-01"],
       [Blank EXCEPT !.title = <<"T", "e", "c", "h">>,
                    !.summary = Some(<<"A", "I", ".">>),
                    !.source = StrSource(<<"N", "e", "w", "s", " ", "O", "n", "e">>),
                    !.url = <<"u", "5">>, !.publishedAt = "2024-01-01"],
       [Blank EXCEPT !.title = <<"V", "o", "t", "e">>,
                    !.summary = Some(<<"P", "o", "l", "l", ".">>),
                    !.source = ObjSource(<<"N", "E", "W", "S", " ", "T", "W", "O">>),
                    !.url = <<"u", "6">>, !.publishedAt = "2024-01-01"],
       [Blank EXCEPT !.title = <<"C", "u", "p">>,
                    !.summary = Some(<<"F", "o", "o", "t", "b", "a", "l", "l", ".">>),
                    !.source = StrSource(<<"G", "a", "z", "e", "t", "t", "e">>),
                    !.url = <<"u", "7">>, !.publishedAt = "2024-01-01"],
       [Blank EXCEPT !.title = <<"F", "i", "l", "m">>,
                    !.summary = Some(<<"S", "t", "a", "r", ".">>),
                    !.source = StrSource(<<"N", "e", "w", "s", " ", "S", "i", "x">>),
                    !.url = <<"u", "8">>, !.publishedAt = "2024-01-01"] >>

\* the article sets: the articles of ChatArticles at the positions I
ChatSets ==
    { [k \in 1..Cardinality(I) |->
          ChatArticles[CHOOSE i \in I : Cardinality({j \in I : j <= i}) = k]] :
        I \in {J \in SUBSET (1..Len(ChatArticles)) : Cardinality(J) <= MaxChatLen} }

q_NewsAi == <<"n", "e", "w", "s", " ", "a", "i">>
q_Football == <<"F", "o", "o", "t", "b", "a", "l", "l">>
q_Spaces == <<" ", " ">>
q_Zzz == <<"z", "z", "z">>
q_NewsTech == <<" ", "N", "E", "W", "S", " ", " ", "t", "e", "c", "h", " ">>
q_Fine == <<"f", "i", "n", "e">>

ChatTexts == {q_NewsAi, q_Football, q_Spaces, q_Zzz, q_NewsTech, q_Fine}

InitChat ==
    /\ chatIn \in [articles : ChatSets, text : ChatTexts]
    /\ messages = <<>>
    /\ chatOut = None
    /\ FetchInit
    /\ NormIdle
    /\ DedupIdle
    /\ GroupIdle
    /\ SortIdle
    /\ FilterIdle
    /\ SumIdle
    /\ ServerIdle

\* handleSend(text): nothing for a blank text; else the user's message,
\* the search and the bot's reply
HandleSend ==
    /\ chatOut = None
    /\ IF Trim(chatIn.text) = <<>>
       THEN /\ chatOut' = Some([searched |-> FALSE, results |-> <<>>])
            /\ UNCHANGED messages
       ELSE LET results == searchArticles(chatIn.articles, chatIn.text)
            IN  /\ chatOut' = Some([searched |-> TRUE, results |-> results])
                /\ messages' = messages \o Replies(chatIn.text, results)
    /\ UNCHANGED <<chatIn, fetchVars, normVars, dedupVars, groupVars,
                 sortVars, filterVars, sumVars,
                 serverVars>>

SpecChat == InitChat /\ [][HandleSend]_vars

---------------------------------------------------------------------------
(* The edge function serves one request *)

t_Alpha == <<"A">>
t_Beta == <<"B">>
d_Alpha == <<"a", ".">>
ai_Summary == <<"s", ".">>

\* what fetchRSSFeed delivers: a description is never empty (part_001:70)
RssArticles ==
    {[title |-> t_Alpha, description |-> Some(d_Alpha), defaultCategory |-> Some(c_tech)],
     [title |-> t_Beta, description |-> Some(t_Beta), defaultCategory |-> Some(cat_sports)]}

\* what NewsAPI delivers: a description can be null
NewsApiArticles ==
    {[title |-> t_Alpha, description |-> Some(d_Alpha), defaultCategory |-> None],
     [title |-> t_Beta, description |-> None, defaultCategory |-> None]}

NoFields == [summary |-> None, category |-> None]

AiReplies ==
    <<[kind |-> "reject", status |-> 0, parsed |-> NoFields],
      [kind |-> "object", status |-> 200,
       parsed |-> [summary |-> Some(ai_Summary), category |-> Some(c_politics)]],
      [kind |-> "status", status |-> 429, parsed |-> NoFields],
      [kind |-> "unparsable", status |-> 200, parsed |-> NoFields],
      [kind |-> "status", status |-> 402, parsed |-> NoFields],
      [kind |-> "object", status |-> 200, parsed |-> NoFields],
      [kind |-> "status", status |-> 500, parsed |-> NoFields],
      [kind |-> "body", status |-> 200, parsed |-> NoFields],
      [kind |-> "null", status |-> 200, parsed |-> NoFields]>>

ReplySet == {AiReplies[i] : i \in DOMAIN AiReplies}

\* the requests with at most MaxBatch fetched articles
SmallRequests(variant, pool) ==
    UNION {[variant : {variant}, articles : [1..n -> pool],
            replies : [1..n -> ReplySet]] : n \in 0..MaxBatch}

\* a request with one article more than the slice takes; every second
\* article has no description of its own
LargeRequest(variant) ==
    [variant |-> variant,
     articles |-> [i \in 1..(SliceLimit + 1) |->
         [title |-> <<UpperChars[i]>>,
          description |-> IF i % 2 = 1 THEN Some(<<LowerChars[i], ".">>)
                          ELSE IF variant = "rss" THEN Some(<<UpperChars[i]>>)
                          ELSE None,
          defaultCategory |-> IF variant = "rss"
                              THEN Some(IF i % 3 = 0 THEN cat_sports ELSE c_tech)
                              ELSE None]],
     replies |-> [i \in 1..(SliceLimit + 1) |->
         AiReplies[((i - 1) % Len(AiReplies)) + 1]]]

ServerRequests ==
    SmallRequests("rss", RssArticles) \cup SmallRequests("newsapi", NewsApiArticles)
    \cup {LargeRequest("rss"), LargeRequest("newsapi")}

\* the handler has fetched the articles and mapped the async function over
\* the slice: every call is pending
InitServer ==
    /\ srvIn \in ServerRequests
    /\ calls = [i \in 1..Len(articlesToProcess(srvIn.articles)) |-> None]
    /\ response = None
    /\ FetchInit
    /\ NormIdle
    /\ DedupIdle
    /\ GroupIdle
    /\ SortIdle
    /\ FilterIdle
    /\ SumIdle
    /\ ChatIdle

\* the call of one article settles, in any order among the pending ones
Settle(i) ==
    /\ response = None
    /\ calls[i] = None
    /\ calls' = [calls EXCEPT ![i] =
                    Some(ProcessWithAI(srvIn.variant, srvIn.articles[i],
                                       srvIn.replies[i]))]
    /\ UNCHANGED <<srvIn, response, fetchVars, normVars, dedupVars, groupVars,
                 sortVars, filterVars, sumVars, chatVars>>

\* await Promise.all(...) resumes when every call has settled; with no
\* fetched article the handler answers at once with an empty list
Respond ==
    /\ response = None
    /\ \A i \in DOMAIN calls : calls[i] # None
    /\ response' = Some([status |-> 200, articles |-> JoinAll(calls)])
    /\ UNCHANGED <<srvIn, calls, fetchVars, normVars, dedupVars, groupVars,
                 sortVars, filterVars, sumVars, chatVars>>

NextServer ==
    \/ \E i \in DOMAIN calls : Settle(i)
    \/ Respond

SpecServer == InitServer /\ [][NextServer]_vars

---------------------------------------------------------------------------
(* Properties of the fetch orchestrator *)

\* invocation p is called in this step
Begins(p) == pc[p] = "idle" /\ pc'[p] = "awaitPrimary"

\* invocation p returns in this step
Ends(p) == pc[p] # "idle" /\ pc'[p] = "idle"

\* the primary call of invocation p settles in this step
PrimarySettles(p) == pc[p] = "awaitPrimary" /\ pc'[p] # "awaitPrimary"

StructuredErrors == {"e429", "e402"}
PrimaryFailed == {"throw", "e429", "e402", "eOther"}
NoArticlesReceived == PrimaryFailures \cup {"okEmpty"}
FallbackFailures == {"fbThrow", "fbNotOk"} \cup BodyFailures
ListDelivered == {"ok", "okEmpty", "obj", "arr"}

\* C1: when a fetch was called with a non-empty article set and its primary
\* call answers 429 or 402, the fetch raises the matching toast, sets no
\* error, consults no fallback (it returns at once) and leaves the article
\* set as it is.
C1_RetainsOnStructuredError ==
    [][\A p \in Procs :
         (PrimarySettles(p) /\ log' \in StructuredErrors /\ had[p])
            => /\ toast' = (IF log' = "e429" THEN RateLimitToast
                                                ELSE PaymentToast)
               /\ error' = Null
               /\ articles' = articles
               /\ pc'[p] = "idle"]_vars

\* C2: an invocation whose primary call yields no articles (a failure, no
\* data, or an empty list) goes on to fetch /news.json.
C2_FallbackWheneverNoArticles ==
    [][\A p \in Procs :
         (PrimarySettles(p) /\ log' \in NoArticlesReceived)
            => pc'[p] = "awaitFallback"]_vars

\* C3: an invocation that returns after its fallback failed (request threw,
\* response not OK, unusable body) leaves exactly the placeholder article.
C3_PlaceholderOnFallbackFailure ==
    [][\A p \in Procs :
         (Ends(p) /\ log' \in FallbackFailures)
            => articles' = <<Placeholder>>]_vars

\* C4: every call of fetchNews sets the loading flag and clears the error;
\* every return, whatever the outcomes were, clears the loading flag with
\* the error null (Success) or set to the generic message (Error); and
\* while an invocation is pending, the loading flag is eventually cleared.
C4_LoadingBracketsEveryFetch ==
    /\ [][\A p \in Procs :
            /\ Begins(p) => (isLoading' = TRUE /\ error' = Null)
            /\ Ends(p) => (isLoading' = FALSE /\ error' \in {Null, GenericError})]_vars
    /\ (\E p \in Procs : pc[p] # "idle") ~> ~isLoading

\* an invocation has returned through the catch block of the fallback
C4_ReturnedThroughCatch ==
    /\ log \in {"fbThrow", "badJson", "malformed"}
    /\ articles = <<Placeholder>>
    /\ isLoading = FALSE
    /\ error = Null

\* C5: an invocation returns with the error set when its primary call
\* failed and its fallback failed, and with the error null when either of
\* them delivered an article list.
C5_ErrorIffBothFail ==
    [][\A p \in Procs :
         Ends(p) =>
            /\ (res[p] \in PrimaryFailed /\ log' \in FallbackFailures)
                  => error' # Null
            /\ (log' \in ListDelivered) => error' = Null]_vars

\* the identity key of the specification: title, "-", url
IdentityKey(a) == a.title \o <<"-">> \o a.url

\* C6: no two articles of the article set have the same identity key.
C6_NoDuplicateKeys ==
    \A i, j \in 1..Len(articles) :
        i # j => IdentityKey(articles[i]) # IdentityKey(articles[j])

\* C7: every article of the article set has a category that is a non-empty
\* lowercase string.
C7_CategoryLowercaseNonEmpty ==
    \A i \in 1..Len(articles) :
        /\ Truthy(articles[i].category)
        /\ IsLowerCase(Val(articles[i].category))

\* the fetch sequences in progress: the invocations of fetchNews that have
\* not returned
Running == {p \in Procs : pc[p] # "idle"}

\* C21: fetch sequences never overlap: while the loading flag is set the
\* Refresh and Retry buttons cannot trigger fetchNews, at any time at most
\* one fetch sequence is in progress to write the article set, the error and
\* the loading flag, and the loading flag is never clear while a fetch
\* sequence is still running.
C21_FetchSequencesNeverOverlap ==
    /\ (ENABLED Refresh) => ~isLoading
    /\ Cardinality(Running) <= 1
    /\ ~isLoading => Running = {}

---------------------------------------------------------------------------
(* Properties of the normalizer *)

\* the display name of a source, a plain string or an object with a name
DisplayName(src) == IF src.kind = "none" THEN <<>> ELSE Val(src.name)

\* the source-name rules, in order, on a lowercased name
RuleCategory(name) ==
    IF \E k \in {kw_tech, kw_gadget, kw_digital} : Includes(name, k)
    THEN cat_technology
    ELSE IF \E k \in {kw_sport, kw_athletic, kw_game} : Includes(name, k)
    THEN cat_sports
    ELSE IF \E k \in {kw_business, kw_finance, kw_market} : Includes(name, k)
    THEN cat_business
    ELSE IF \E k \in {kw_entertainment, kw_movie, kw_hollywood} : Includes(name, k)
    THEN cat_entertainment
    ELSE cat_general

\* the category the priority rule gives a raw record
ExpectedCategory(raw) ==
    IF Truthy(raw.category) THEN ToLowerCase(Val(raw.category))
    ELSE RuleCategory(ToLowerCase(DisplayName(raw.source)))

\* C8: the category of the normalized record is the explicit category
\* lowercased when the raw record has a non-empty one, otherwise the first
\* matching source-name rule on the display name of the source (a string or
\* an object with a name), otherwise "general".
C8_CategoryPriority ==
    IsSome(normOut) => Val(normOut).category = Some(ExpectedCategory(rawIn))

\* the categories the source-name rules and the default can give
RuleVocabulary ==
    {cat_technology, cat_sports, cat_business, cat_entertainment, cat_general}

\* every category the interface names: the rule categories and the tabs
Vocabulary == RuleVocabulary \cup {c_tech, c_politics}

\* C9 as stated: the category of every normalized record is a member of the
\* fixed vocabulary, whatever the explicit category of the raw record holds.
C9_CategoryInVocabulary ==
    IsSome(normOut) =>
        /\ Truthy(Val(normOut).category)
        /\ Val(Val(normOut).category) \in Vocabulary

\* C9: the category of every normalized record is non-empty; it is the
\* explicit category lowercased when the raw record has a non-empty one,
\* and otherwise one of technology, sports, business, entertainment, general.
C9_CategoryExplicitOrVocabulary ==
    IsSome(normOut) =>
        LET c == Val(normOut).category
        IN  /\ Truthy(c)
            /\ IF Truthy(rawIn.category)
               THEN c = Some(ToLowerCase(Val(rawIn.category)))
               ELSE Val(c) \in RuleVocabulary

\* a record with an explicit category outside every vocabulary was normalized
C9_ArbitraryCategoryNormalized ==
    /\ IsSome(normOut)
    /\ rawIn.category = Some(c_Weather)
    /\ Val(normOut).category = Some(ToLowerCase(c_Weather))
    /\ ToLowerCase(c_Weather) \notin Vocabulary

---------------------------------------------------------------------------
(* Properties of the deduplicator *)

\* positions of xs that hold the first occurrence of their key
FirstPositions(xs) ==
    {i \in 1..Len(xs) :
        \A j \in 1..(i - 1) : IdentityKey(xs[j]) # IdentityKey(xs[i])}

\* the k-th smallest member of a set of positions
KthOf(I, k) == CHOOSE i \in I : Cardinality({j \in I : j <= i}) = k

\* the subsequence of xs made of the first occurrence of each key
FirstOccurrences(xs) ==
    [k \in 1..Cardinality(FirstPositions(xs)) |-> xs[KthOf(FirstPositions(xs), k)]]

\* C10: deduplicating the output again changes nothing, and the output is
\* the subsequence of the input made of the first occurrence of each key,
\* in input order.
C10_DedupeIdempotentFirstOccurrence ==
    IsSome(dedupOut) =>
        /\ Dedupe(Val(dedupOut)) = Val(dedupOut)
        /\ Val(dedupOut) = FirstOccurrences(xsIn)

\* two records with the same title and url and different publishedAt were
\* deduplicated and only the first is left
C10_SameKeyLaterDateDropped ==
    /\ IsSome(dedupOut)
    /\ Len(xsIn) = 2
    /\ xsIn[1].title = xsIn[2].title
    /\ xsIn[1].url = xsIn[2].url
    /\ xsIn[1].publishedAt # xsIn[2].publishedAt
    /\ Val(dedupOut) = <<xsIn[1]>>

\* the (title, url) pair of an article
TitleUrlPair(a) == <<a.title, a.url>>

\* C22: an article whose (title, url) pair differs from the pair of every
\* earlier article of the input is never dropped: two articles are
\* duplicates only if their titles are equal and their urls are equal.
C22_DistinctPairNeverDropped ==
    IsSome(dedupOut) =>
        \A i \in 1..Len(xsIn) :
            (\A j \in 1..(i - 1) : TitleUrlPair(xsIn[j]) # TitleUrlPair(xsIn[i]))
                => \E k \in 1..Len(Val(dedupOut)) : Val(dedupOut)[k] = xsIn[i]

---------------------------------------------------------------------------
(* Properties of the topic grouper *)

\* the subsequence of xs at the positions I, in input order
Restrict(xs, I) == [k \in 1..Cardinality(I) |-> xs[KthOf(I, k)]]

RECURSIVE SumOfSizes(_)
SumOfSizes(gs) ==
    IF gs = <<>> THEN 0 ELSE Len(Head(gs).articles) + SumOfSizes(Tail(gs))

\* gs splits the positions of xs: every position belongs to one group, and
\* every group holds the articles of its positions in input order
IsOrderedPartition(gs, xs) ==
    \E f \in [1..Len(xs) -> 1..Len(gs)] :
        \A g \in 1..Len(gs) :
            gs[g].articles = Restrict(xs, {i \in 1..Len(xs) : f[i] = g})

\* C11: the groups are an order-preserving partition of the input: every
\* input position is in exactly one group, the sizes sum to the input
\* length, no group is empty, no topic has two groups, and an empty input
\* gives no group.
C11_GroupsPartitionInput ==
    IsSome(grpOut) =>
        LET gs == Val(grpOut)
        IN  /\ IsOrderedPartition(gs, grpIn)
            /\ SumOfSizes(gs) = Len(grpIn)
            /\ \A g \in 1..Len(gs) : gs[g].articles # <<>>
            /\ \A g, h \in 1..Len(gs) : g # h => gs[g].topic # gs[h].topic
            /\ (grpIn = <<>> => gs = <<>>)

\* three articles were grouped, the first and the third, different ones,
\* into one group and the second into another
C11_SplitGroupKeepsOrder ==
    /\ IsSome(grpOut)
    /\ Len(grpIn) = 3
    /\ grpIn[1] # grpIn[3]
    /\ Len(Val(grpOut)) = 2
    /\ Val(grpOut)[1].articles = <<grpIn[1], grpIn[3]>>
    /\ Val(grpOut)[2].articles = <<grpIn[2]>>

\* the taxonomy in declaration order, the catch-all group last
TaxonomyOrder ==
    <<"Politics", "Technology", "Business", "Sports", "Entertainment",
      "Science", "Health", "Other">>

TaxonomyRank(topic) == CHOOSE i \in 1..Len(TaxonomyOrder) : TaxonomyOrder[i] = topic

\* C12: the groups are in non-increasing order of member count, and two
\* groups of equal count are in taxonomy declaration order.
C12_GroupsByCountThenTaxonomy ==
    IsSome(grpOut) =>
        LET gs == Val(grpOut)
        IN  \A g, h \in 1..Len(gs) :
                g < h =>
                    /\ Len(gs[g].articles) >= Len(gs[h].articles)
                    /\ (Len(gs[g].articles) = Len(gs[h].articles)
                          => TaxonomyRank(gs[g].topic) < TaxonomyRank(gs[h].topic))

\* the keywords of a taxonomy entry
KeywordsOf(topic) ==
    topicKeywords[CHOOSE i \in 1..Len(topicKeywords) :
                      topicKeywords[i].topic = topic].keywords

\* title + " " + summary of an article, an absent summary adding no text
TitleAndSummary(article) ==
    article.title \o <<" ">>
        \o (IF IsSome(article.summary) THEN Val(article.summary) ELSE <<>>)

RECURSIVE FirstEntryFrom(_, _)
\* the first taxonomy entry from rank r on with a keyword occurring in the
\* text case-insensitively, "Other" when there is none
FirstEntryFrom(text, r) ==
    IF TaxonomyOrder[r] = "Other" THEN "Other"
    ELSE IF \E k \in KeywordsOf(TaxonomyOrder[r]) : Includes(ToLowerCase(text), k)
    THEN TaxonomyOrder[r]
    ELSE FirstEntryFrom(text, r + 1)

\* C19: every article is in the group of the first taxonomy entry, in the
\* order Politics, Technology, Business, Sports, Entertainment, Science,
\* Health, that has a keyword occurring as a case-insensitive substring of
\* title + " " + summary, and in "Other" when no entry matches; so an
\* article of category "general" whose text contains "election" is in
\* "Politics".
C19_FirstMatchingEntryClaims ==
    IsSome(grpOut) =>
        /\ \A g \in 1..Len(Val(grpOut)) :
            \A i \in 1..Len(Val(grpOut)[g].articles) :
                Val(grpOut)[g].topic =
                    FirstEntryFrom(TitleAndSummary(Val(grpOut)[g].articles[i]), 1)
        /\ \A i \in 1..Len(grpIn) :
            (grpIn[i].category = Some(cat_general)
                 /\ Includes(ToLowerCase(TitleAndSummary(grpIn[i])),
                             <<"e", "l", "e", "c", "t", "i", "o", "n">>))
            => \E g \in 1..Len(Val(grpOut)) :
                 /\ Val(grpOut)[g].topic = "Politics"
                 /\ \E k \in 1..Len(Val(grpOut)[g].articles) :
                        Val(grpOut)[g].articles[k] = grpIn[i]

\* an article of category "general" about an election was put into
\* "Politics", an article with keywords of Technology and of Sports into
\* "Technology", an article without keyword into "Other"
C19_GeneralElectionInPolitics ==
    /\ IsSome(grpOut)
    /\ \E g, h, o \in 1..Len(Val(grpOut)) :
        /\ Val(grpOut)[g].topic = "Politics"
        /\ Val(grpOut)[g].articles[1].title = t_Election
        /\ Val(grpOut)[g].articles[1].category = Some(cat_general)
        /\ Val(grpOut)[h].topic = "Technology"
        /\ Val(grpOut)[h].articles[1].title = t_AIGame
        /\ Val(grpOut)[o].topic = "Other"
        /\ Val(grpOut)[o].articles[1].title = t_Fog

---------------------------------------------------------------------------
(* Properties of the sorter *)

\* the one-to-one maps of the positions 1..n onto themselves
PositionMaps(n) ==
    {f \in [1..n -> 1..n] : \A i, j \in 1..n : i # j => f[i] # f[j]}

AllParse(xs) == \A i \in 1..Len(xs) : GetTime(xs[i].publishedAt) # NaN

Stamp(x) == Val(GetTime(x.publishedAt))

DistinctStamps(xs) ==
    \A i, j \in 1..Len(xs) : i # j => Stamp(xs[i]) # Stamp(xs[j])

Reverse(xs) == [i \in 1..Len(xs) |-> xs[Len(xs) + 1 - i]]

\* ys is xs rearranged by timestamp, descending for "newest" and ascending
\* for "oldest", equal timestamps in their input order
IsStableSortOf(ys, xs, order) ==
    \E f \in PositionMaps(Len(xs)) :
        /\ ys = [i \in 1..Len(xs) |-> xs[f[i]]]
        /\ \A i, j \in 1..Len(xs) :
              i < j =>
                 /\ IF order = "newest"
                    THEN Stamp(xs[f[i]]) >= Stamp(xs[f[j]])
                    ELSE Stamp(xs[f[i]]) <= Stamp(xs[f[j]])
                 /\ Stamp(xs[f[i]]) = Stamp(xs[f[j]]) => f[i] < f[j]

\* C13: the result is a permutation of the input; when every publishedAt
\* parses it is ordered by timestamp, descending for "newest" and ascending
\* for "oldest", with equal timestamps in input order; and when the
\* timestamps are pairwise distinct, sorting the "newest" result by
\* "oldest" gives its exact reverse.
C13_SortStableByDate ==
    IsSome(sortOut) =>
        LET xs == sortIn.articles
            ys == Val(sortOut)
        IN  /\ \E f \in PositionMaps(Len(xs)) : ys = [i \in 1..Len(xs) |-> xs[f[i]]]
            /\ AllParse(xs) => IsStableSortOf(ys, xs, sortIn.order)
            /\ (AllParse(xs) /\ DistinctStamps(xs) /\ sortIn.order = "newest")
                  => sortArticles(ys, "oldest") = {Reverse(ys)}

\* three articles with dates that parse, two of them with the same
\* timestamp written in two ways, were sorted newest first and moved
C13_EqualStampsSorted ==
    /\ IsSome(sortOut)
    /\ sortIn.order = "newest"
    /\ Len(sortIn.articles) = 3
    /\ AllParse(sortIn.articles)
    /\ sortIn.articles[1].publishedAt # sortIn.articles[3].publishedAt
    /\ Stamp(sortIn.articles[1]) = Stamp(sortIn.articles[3])
    /\ Stamp(sortIn.articles[2]) > Stamp(sortIn.articles[1])
    /\ Val(sortOut) = <<sortIn.articles[2], sortIn.articles[1], sortIn.articles[3]>>

\* the timestamp of an article, 0 when its publishedAt does not parse
StampOrZero(x) ==
    IF GetTime(x.publishedAt) = NaN THEN 0 ELSE Val(GetTime(x.publishedAt))

\* C20: an article whose publishedAt does not parse is sorted as timestamp
\* 0: after every dated article in "newest" order, before them in "oldest"
\* order, the dated articles in order among themselves.
C20_UnparsableSortsAsOldest ==
    IsSome(sortOut) =>
        LET ys == Val(sortOut)
        IN  \A i, j \in 1..Len(ys) :
                i < j => IF sortIn.order = "newest"
                         THEN StampOrZero(ys[i]) >= StampOrZero(ys[j])
                         ELSE StampOrZero(ys[i]) <= StampOrZero(ys[j])

---------------------------------------------------------------------------
(* Properties of the filter *)

FiledUnder(x) ==
    IF IsSome(x.category) /\ Val(x.category) # <<>>
    THEN ToLowerCase(Val(x.category))
    ELSE cat_general

---------------------------------------------------------------------------
(* Properties of the summarizer *)

\* the text with its white space normalized, trimmed
Cleaned(text) == Trim(CollapseWs(Val(text)))

\* C15: a text that splits into at most maxSentences sentence units and
\* whose cleaned form has at most maxChars characters is returned as its
\* cleaned form, character for character.
C15_ShortTextVerbatim ==
    IsSome(sumOut) =>
        ((/\ Truthy(sumIn.text)
          /\ Cleaned(sumIn.text) # <<>>
          /\ Len(MatchSentences(Cleaned(sumIn.text), 1)) <= sumIn.maxSentences
          /\ Len(Cleaned(sumIn.text)) <= sumIn.maxChars)
            => Val(sumOut) = Cleaned(sumIn.text))

\* a text is blank: null, undefined, empty or white space only
IsBlankText(text) ==
    ~IsSome(text) \/ \A i \in 1..Len(Val(text)) : Val(text)[i] \in WhiteSpace

\* C16: the result is the placeholder for a blank text, and is never the
\* empty string, whatever maxSentences and maxChars are.
C16_NeverEmptySummary ==
    IsSome(sumOut) =>
        /\ IsBlankText(sumIn.text) => Val(sumOut) = NoSummary
        /\ Val(sumOut) # <<>>

---------------------------------------------------------------------------
(* Properties of the chat assistant *)

\* title, summary and source name of an article, in lowercase; an article
\* without summary has none to search
SearchedFields(a) ==
    ToLowerCase(a.title \o <<" ">>
                \o (IF IsSome(a.summary) THEN Val(a.summary) ELSE <<>>)
                \o <<" ">> \o Val(a.source.name))

\* the tokens of a query: its lowercase form split at white space
QueryTokens(text) == SplitWs(ToLowerCase(text), <<>>)

\* the number of tokens of the query that occur in the fields of a
MatchCount(a, text) ==
    Cardinality({t \in 1..Len(QueryTokens(text)) :
                    Includes(SearchedFields(a), QueryTokens(text)[t])})

\* the positions of xs whose article has a token of the query
Matching(xs, text) == {i \in 1..Len(xs) : MatchCount(xs[i], text) > 0}

\* the place of position i among the matching ones: more tokens first,
\* equal counts in the order of the article set
RankOf(xs, text, i) ==
    1 + Cardinality({j \in Matching(xs, text) :
                        \/ MatchCount(xs[j], text) > MatchCount(xs[i], text)
                        \/ /\ MatchCount(xs[j], text) = MatchCount(xs[i], text)
                           /\ j < i})

\* C17: for a text that is not blank the search returns the matching
\* articles of the first six ranks, in rank order, every one with a token
\* of the query in its title, summary or source name; and when no article
\* matches, the messages are the user's text and the bot's "not found".
C17_SearchRanksTopSix ==
    (IsSome(chatOut) /\ Trim(chatIn.text) # <<>>) =>
        LET xs == chatIn.articles
            rs == Val(chatOut).results
            m == Matching(xs, chatIn.text)
        IN  /\ Val(chatOut).searched
            /\ Len(rs) = (IF Cardinality(m) < 6 THEN Cardinality(m) ELSE 6)
            /\ \A k \in 1..Len(rs) :
                  \E i \in m : RankOf(xs, chatIn.text, i) = k /\ rs[k] = xs[i]
            /\ m = {} =>
                  /\ Len(messages) = 2
                  /\ messages[1].role = "user"
                  /\ messages[2].role = "bot"
                  /\ messages[2].kind = "notFound"

---------------------------------------------------------------------------
(* Properties of the edge function *)

\* the AI call of an article failed: no response, a response that is not
\* a success, a body or a content that cannot be read
CallFailed(reply) ==
    \/ reply.kind \in {"reject", "body", "unparsable", "null"}
    \/ reply.status \notin 200..299

\* the category an article carries without the AI
OwnCategory(article) ==
    IF IsSome(article.defaultCategory) THEN Val(article.defaultCategory)
    ELSE cat_business

\* the summary an article carries without the AI: its description, its
\* title when it has none
OwnSummary(article) ==
    IF IsSome(article.description) /\ Val(article.description) # <<>>
    THEN article.description
    ELSE Some(article.title)

\* the response to a request holds the first min(n, 15) fetched articles in
\* their order; an article whose call failed carries its own category and,
\* as summary, its description (orTitle: its title when it has none); an
\* article whose call brought a summary carries that summary
FanOutResponse(orTitle) ==
    IsSome(response) =>
        LET all == srvIn.articles
            k == IF Len(all) < 15 THEN Len(all) ELSE 15
            out == Val(response).articles
        IN  /\ Val(response).status = 200
            /\ Len(out) = k
            /\ \A i \in 1..k :
                /\ out[i].title = all[i].title
                /\ CallFailed(srvIn.replies[i]) =>
                       /\ out[i].summary = IF orTitle THEN OwnSummary(all[i])
                                           ELSE all[i].description
                       /\ out[i].category = OwnCategory(all[i])
                /\ (~CallFailed(srvIn.replies[i])
                        /\ Truthy(srvIn.replies[i].parsed.summary)) =>
                       out[i].summary = srvIn.replies[i].parsed.summary

===========================================================================
